---- MODULE Spec2Model ----
(***************************************************************************)
(* Model of the per-user simulation scheduler of the greenhouse demo       *)
(* (src/greenhouse/simulation_service.py): the /start_simulation and       *)
(* /trigger_bug request handlers, the socket connect / disconnect          *)
(* handlers and the simulate_plant_data worker loop, as threads that       *)
(* interleave at every access to the module-level globals.                 *)
(*                                                                         *)
(* Telemetry that no code reads back and no property mentions (spans, log  *)
(* lines, error_counter, data_emitted_counter) is left out of the state;   *)
(* the counters the properties speak of are kept.                          *)
(***************************************************************************)
EXTENDS Integers, Sequences, FiniteSets, TLC

\* ---------------------------------------------------------------- bounds
NUsers == 2
\* start_simulation requests served in a run, and how many of them a run
\* with overlapping requests, with faults or with leaving sockets serves
NReq == 2
NFew == 2
NSess == 2
MaxPlants == 2
\* how finely the draws of random() are sampled: i/RandSteps, i = 0..RandSteps
RandSteps == 3
\* toggle_bug_mode requests served in a run
NToggles == 3

Users == 1..NUsers
Req == 1..NReq
FewReq == 1..NFew
Sessions == 1..NSess
\* every thread is created by one start_simulation request
Threads == 1..NReq
Toggles == 1..NToggles

\* ------------------------------------------------------------ user ids
\* A user id as Python sees it: the JSON integer n, the text "n" of a query
\* string or of a JSON string, the empty text, or None (key absent / null).
IntUid(n) == [ty |-> "int", n |-> n]
StrUid(n) == [ty |-> "str", n |-> n]
EmptyUid == [ty |-> "empty", n |-> 0]
NoneUid == [ty |-> "none", n |-> 0]

\* the values that can key the module's dicts (distinct Python objects,
\* 1 != "1")
Keys == {IntUid(n) : n \in Users} \cup {StrUid(n) : n \in Users}

\* Python truthiness of a user id (`if user_id:`)
Truthy(uid) == uid.ty \in {"int", "str"} /\ uid.n # 0

\* str(user_id): the room name and the metric attribute; the text of n
Room(uid) == uid.n

\* what a start_simulation request may carry as data.get("user_id")
StartUids == Keys \cup {NoneUid, EmptyUid}
\* what a socket may carry as request.args.get("user_id")
SocketUids == {StrUid(n) : n \in Users} \cup {NoneUid}

\* ------------------------------------------------------------- entities
\* an entity of the plant service's answer: a plant with its id, or a
\* malformed one (no "id" key), for which plant["id"] raises
Entities == 1..MaxPlants
Malformed == 0
\* the answers of the plant service: the user's plants in the order of
\* their ids, a user owning the first k plants
PlantLists(S) == {[i \in 1..k |-> i] : k \in {0} \cup S}
\* the same answers with one entity malformed
BadLists(S) ==
  UNION {{[p EXCEPT ![i] = Malformed] : i \in DOMAIN p} : p \in PlantLists(S)}

\* ------------------------------------------------------------- readings
\* random.uniform(a, b) is a + (b - a) * random(); the end point b can come
\* out by floating-point rounding. In thousandths, for the draw i/RandSteps.
uniform(a, b, i) == a * 1000 + ((b - a) * 1000 * i) \div RandSteps
\* round(x, 2), from thousandths to hundredths
round2(m) == (m + 5) \div 10
\* random.randint(a, b): the values it can return
randint(a, b) == a..b
\* lines 161-166: the readings one entity can get, temperature and humidity
\* in hundredths
fake_dataAnyLevel ==
  {[temperature |-> round2(uniform(20, 30, i)),
    humidity |-> round2(uniform(40, 60, j)),
    water_level |-> w, number_of_insects |-> n] :
     i \in 0..RandSteps, j \in 0..RandSteps,
     w \in randint(0, 10), n \in randint(0, 10)}

fake_data ==
  {[temperature |-> round2(uniform(20, 30, i)),
    humidity |-> round2(uniform(40, 60, j)),
    water_level |-> w, number_of_insects |-> n] :
     i \in 0..RandSteps, j \in 0..RandSteps,
     w \in randint(1, 10), n \in randint(0, 10)}
\* no reading generated yet in this tick / the reading left out of the state
NoReading == [temperature |-> 0, humidity |-> 0, water_level |-> 0,
              number_of_insects |-> 0]

\* the place of the first malformed entity of an answer, 0 if there is none
FirstBad(p) ==
  IF \E i \in DOMAIN p : p[i] = Malformed
    THEN CHOOSE i \in DOMAIN p :
           p[i] = Malformed /\ \A j \in 1..(i - 1) : p[j] # Malformed
    ELSE 0

\* ---------------------------------------------------------------- state
VARIABLES
  simulation_threads,        \* dict user_id -> Thread; 0 = key absent
  stop_flags,                \* dict user_id -> bool; "absent" = key absent
  active_users,              \* dict user_id -> True, as its key set
  BUGS,                      \* the module-level fault flag
  rooms,                     \* Flask-SocketIO room str(user_id) -> sids in it
  threads,                   \* the Thread objects, numbered in creation order
  req,                       \* the start_simulation requests being served
  sess,                      \* the socket sessions and their handlers
  simulation_started_counter,
  active_simulations_gauge,  \* per attribute user_id = str(user_id)
  connections_gauge,         \* per attribute user_id = str(user_id)
  emitted,                   \* per user_id: the last update_plant it emitted
  bug_mode,                  \* bug_service: the module-level mode flag
  bug_mode_gauge,            \* bug_service: the up-down counter's total
  toggle                     \* bug_service: the toggle_bug_mode requests

simulation_service ==
  <<simulation_threads, stop_flags, active_users, BUGS, rooms, threads,
    req, sess, simulation_started_counter, active_simulations_gauge,
    connections_gauge, emitted>>
bug_service == <<bug_mode, bug_mode_gauge, toggle>>

vars == <<simulation_service, bug_service>>

NoTick == [n |-> 0, emits |-> 0, supp |-> 0, fetch |-> "none", bug0 |-> FALSE,
           clean |-> TRUE, exc |-> FALSE, prevFail |-> FALSE,
           data |-> NoReading, bad |-> 0, prevExc |-> FALSE]
NoThread == [st |-> "unborn", key |-> NoneUid, plants |-> <<>>, tick |-> NoTick]
NoReq == [pc |-> "idle", uid |-> NoneUid, target |-> 0, thread |-> 0,
          result |-> 0, drained |-> FALSE]
\* (live0: whether a loop of the user was live when the disconnect handler
\* raised the stop flag; kept while the handler runs)
NoSess == [st |-> "new", uid |-> NoneUid, target |-> 0, drained |-> FALSE,
           live0 |-> FALSE]
NoEmit == [gen |-> 0, room |-> 0, plant |-> 0]
NoToggle == [pc |-> "idle", loaded |-> FALSE]

Init ==
  /\ simulation_threads = [k \in Keys |-> 0]
  /\ stop_flags = [k \in Keys |-> "absent"]
  /\ active_users = {}
  /\ BUGS = FALSE
  /\ rooms = [n \in Users |-> {}]
  /\ threads = [t \in Threads |-> NoThread]
  /\ req = [r \in Req |-> NoReq]
  /\ sess = [s \in Sessions |-> NoSess]
  /\ simulation_started_counter = 0
  /\ active_simulations_gauge = [n \in Users |-> 0]
  /\ connections_gauge = [n \in Users |-> 0]
  /\ emitted = [k \in Keys |-> NoEmit]
  /\ bug_mode = FALSE
  /\ bug_mode_gauge = 0
  /\ toggle = [q \in Toggles |-> NoToggle]

\* a Thread that was started and whose target has not returned
Alive(t) == threads[t].st \in {"check", "fetch", "loop", "suppress"}
\* Thread.join() returns at once on a finished thread, blocks on a running
\* one and raises RuntimeError on one that was never started
Finished(t) == threads[t].st = "dead"
Unstarted(t) == threads[t].st = "created"
NextThread == Cardinality({t \in Threads : threads[t].st # "unborn"}) + 1
\* a loop is live for the user of uid, under either form of the user id
UserLive(uid) ==
  \E t \in Threads : Alive(t) /\ Room(threads[t].key) = Room(uid)

\* ---------------------------------------------------- start_simulation
\* StartBegin with the start counted before the user id is validated
StartBeginCountsFirst(r, uid) ==
  /\ req[r].pc = "idle"
  /\ \A q \in Req : q < r => req[q].pc # "idle"
  /\ simulation_started_counter' = simulation_started_counter + 1
  /\ req' = [req EXCEPT ![r] =
       IF Truthy(uid)
         THEN [@ EXCEPT !.uid = uid,
                 !.pc = IF simulation_threads[uid] # 0 THEN "flag" ELSE "reset"]
         ELSE [@ EXCEPT !.uid = uid, !.pc = "done", !.result = 400]]
  /\ UNCHANGED <<simulation_threads, stop_flags, active_users, BUGS, rooms,
                 threads, sess, active_simulations_gauge, connections_gauge,
                 emitted>>
  /\ UNCHANGED bug_service

\* (the requests are numbered in the order they arrive)
\* lines 77-84: read user_id; a falsy one is answered 400; otherwise count
\* the start and test `user_id in simulation_threads`
StartBegin(r, uid) ==
  /\ req[r].pc = "idle"
  /\ \A q \in Req : q < r => req[q].pc # "idle"
  /\ IF Truthy(uid)
       THEN /\ simulation_started_counter' = simulation_started_counter + 1
            /\ req' = [req EXCEPT ![r] = [@ EXCEPT !.uid = uid,
                         !.pc = IF simulation_threads[uid] # 0 THEN "flag" ELSE "reset"]]
       ELSE /\ req' = [req EXCEPT ![r] = [@ EXCEPT !.uid = uid, !.pc = "done",
                                                   !.result = 400]]
            /\ UNCHANGED simulation_started_counter
  /\ UNCHANGED <<simulation_threads, stop_flags, active_users, BUGS, rooms,
                 threads, sess, active_simulations_gauge, connections_gauge,
                 emitted>>
  /\ UNCHANGED bug_service

\* line 85: stop_flags[user_id] = True
StartFlag(r) ==
  /\ req[r].pc = "flag"
  /\ stop_flags' = [stop_flags EXCEPT ![req[r].uid] = "true"]
  /\ req' = [req EXCEPT ![r].pc = "join"]
  /\ UNCHANGED <<simulation_threads, active_users, BUGS, rooms, threads, sess,
                 simulation_started_counter, active_simulations_gauge,
                 connections_gauge, emitted>>
  /\ UNCHANGED bug_service

\* line 86, the call: look the thread up and join it. join() on a thread
\* that is registered (line 91) but not yet started (line 92) raises
\* RuntimeError, which ends the request with a 500.
StartJoin(r) ==
  /\ req[r].pc = "join"
  /\ LET t == simulation_threads[req[r].uid] IN
       req' = [req EXCEPT ![r] =
                 IF Unstarted(t)
                   THEN [@ EXCEPT !.pc = "done", !.result = 500]
                   ELSE [@ EXCEPT !.pc = "joining", !.target = t]]
  /\ UNCHANGED <<simulation_threads, stop_flags, active_users, BUGS, rooms,
                 threads, sess, simulation_started_counter,
                 active_simulations_gauge, connections_gauge, emitted>>
  /\ UNCHANGED bug_service

\* StartJoined without the wait: the old thread is signalled and not joined
StartJoinedNoWait(r) ==
  /\ req[r].pc = "joining"
  /\ active_simulations_gauge' =
       [active_simulations_gauge EXCEPT ![Room(req[r].uid)] = @ - 1]
  /\ req' = [req EXCEPT ![r] = [@ EXCEPT !.pc = "reset", !.target = 0,
                                         !.drained = TRUE]]
  /\ UNCHANGED <<simulation_threads, stop_flags, active_users, BUGS, rooms,
                 threads, sess, simulation_started_counter, connections_gauge,
                 emitted>>
  /\ UNCHANGED bug_service

\* line 86, the return of join() once the old thread has finished, and
\* line 87: active_simulations_gauge.add(-1)
StartJoined(r) ==
  /\ req[r].pc = "joining"
  /\ Finished(req[r].target)
  /\ active_simulations_gauge' =
       [active_simulations_gauge EXCEPT ![Room(req[r].uid)] = @ - 1]
  /\ req' = [req EXCEPT ![r] = [@ EXCEPT !.pc = "reset", !.target = 0,
                                         !.drained = TRUE]]
  /\ UNCHANGED <<simulation_threads, stop_flags, active_users, BUGS, rooms,
                 threads, sess, simulation_started_counter, connections_gauge,
                 emitted>>
  /\ UNCHANGED bug_service

\* line 89: stop_flags[user_id] = False
StartReset(r) ==
  /\ req[r].pc = "reset"
  /\ stop_flags' = [stop_flags EXCEPT ![req[r].uid] = "false"]
  /\ req' = [req EXCEPT ![r].pc = "create"]
  /\ UNCHANGED <<simulation_threads, active_users, BUGS, rooms, threads, sess,
                 simulation_started_counter, active_simulations_gauge,
                 connections_gauge, emitted>>
  /\ UNCHANGED bug_service

\* lines 90-91: thread = Thread(...); simulation_threads[user_id] = thread
StartCreate(r) ==
  /\ req[r].pc = "create"
  /\ LET t == NextThread IN
       /\ threads' = [threads EXCEPT ![t] = [NoThread EXCEPT !.st = "created",
                                                             !.key = req[r].uid]]
       /\ simulation_threads' = [simulation_threads EXCEPT ![req[r].uid] = t]
       /\ req' = [req EXCEPT ![r] = [@ EXCEPT !.pc = "start", !.thread = t]]
  /\ UNCHANGED <<stop_flags, active_users, BUGS, rooms, sess,
                 simulation_started_counter, active_simulations_gauge,
                 connections_gauge, emitted>>
  /\ UNCHANGED bug_service

\* lines 92-97: thread.start(); active_simulations_gauge.add(1); return 200
StartRun(r) ==
  /\ req[r].pc = "start"
  /\ threads' = [threads EXCEPT ![req[r].thread].st = "check"]
  /\ active_simulations_gauge' =
       [active_simulations_gauge EXCEPT ![Room(req[r].uid)] = @ + 1]
  /\ req' = [req EXCEPT ![r] = [@ EXCEPT !.pc = "done", !.thread = 0,
                                         !.result = 200]]
  /\ UNCHANGED <<simulation_threads, stop_flags, active_users, BUGS, rooms,
                 sess, simulation_started_counter, connections_gauge, emitted>>
  /\ UNCHANGED bug_service

\* --------------------------------------------------------- trigger_bug
\* lines 109-114: BUGS = True. (The tick a worker is in, or has just
\* ended, is no longer free of outside writes to the flag.)
Disturb(t) ==
  IF threads[t].st \in {"check", "fetch", "loop", "suppress"}
    THEN [threads[t] EXCEPT !.tick.clean = FALSE]
    ELSE threads[t]

bug ==
  /\ BUGS' = TRUE
  /\ threads' = [t \in Threads |-> Disturb(t)]
  /\ UNCHANGED <<simulation_threads, stop_flags, active_users, rooms, req, sess,
                 simulation_started_counter, active_simulations_gauge,
                 connections_gauge, emitted>>
  /\ UNCHANGED bug_service

\* -------------------------------------------------- simulate_plant_data
\* what requests.get(.../plants/<user_id>) can give: a 200 with a list of
\* entities, another status, or an exception of the transport
FetchOk(p) == [kind |-> "ok", plants |-> p]
FetchStatus == [kind |-> "status", plants |-> <<>>]
FetchRaise == [kind |-> "raise", plants |-> <<>>]
GoodFetches == {FetchOk(p) : p \in PlantLists(Entities)}
BadFetches == {FetchOk(p) : p \in BadLists(Entities)}
FailedFetches == {FetchStatus, FetchRaise}
AllFetches == GoodFetches \cup BadFetches \cup FailedFetches

\* LoopCheck with the loop condition never testing the flag
LoopCheckIgnoresFlag(t) ==
  /\ threads[t].st = "check"
  /\ threads' = [threads EXCEPT ![t] =
       [@ EXCEPT !.st = "fetch",
                 !.tick = [NoTick EXCEPT !.bug0 = BUGS,
                             !.prevFail = (threads[t].tick.fetch = "failed"),
                             !.prevExc = threads[t].tick.exc]]]
  /\ UNCHANGED <<simulation_threads, stop_flags, active_users, BUGS, rooms, req,
                 sess, simulation_started_counter, active_simulations_gauge,
                 connections_gauge, emitted>>
  /\ UNCHANGED bug_service

\* line 149: `while not stop_flags[user_id]`; a raised flag ends the
\* thread, otherwise a tick begins (line 150, the sleep, changes nothing)
LoopCheck(t) ==
  /\ threads[t].st = "check"
  /\ threads' = [threads EXCEPT ![t] =
       IF stop_flags[threads[t].key] = "true"
         THEN [@ EXCEPT !.st = "dead", !.tick = NoTick]
         ELSE [@ EXCEPT !.st = "fetch",
                        !.tick = [NoTick EXCEPT !.bug0 = BUGS,
                                    !.prevFail = (threads[t].tick.fetch
                                                    = "failed"),
                                    !.prevExc = threads[t].tick.exc]]]
  /\ UNCHANGED <<simulation_threads, stop_flags, active_users, BUGS, rooms, req,
                 sess, simulation_started_counter, active_simulations_gauge,
                 connections_gauge, emitted>>
  /\ UNCHANGED bug_service

\* after an entity: the next one, or the end of the tick
AfterEntity(rest) == IF rest = <<>> THEN "check" ELSE "loop"

\* Fetch with a failed fetch ending the thread instead of the tick
FetchFatal(t, f) ==
  /\ threads[t].st = "fetch"
  /\ threads' = [threads EXCEPT ![t] =
       IF f.kind = "ok"
         THEN [@ EXCEPT !.st = AfterEntity(f.plants), !.plants = f.plants,
                        !.tick.fetch = "ok", !.tick.n = Len(f.plants),
                        !.tick.bad = FirstBad(f.plants)]
         ELSE [@ EXCEPT !.st = "dead", !.tick.fetch = "failed"]]
  /\ UNCHANGED <<simulation_threads, stop_flags, active_users, BUGS, rooms, req,
                 sess, simulation_started_counter, active_simulations_gauge,
                 connections_gauge, emitted>>
  /\ UNCHANGED bug_service

\* Fetch with the downstream calls of all tasks serialised (one lock, or
\* one cooperative loop that a blocking call holds): no fetch returns
\* while the fetch of another task is outstanding
FetchSerial(t, f) ==
  /\ threads[t].st = "fetch"
  /\ \A u \in Threads \ {t} : threads[u].st # "fetch"
  /\ threads' = [threads EXCEPT ![t] =
       IF f.kind = "ok"
         THEN [@ EXCEPT !.st = AfterEntity(f.plants), !.plants = f.plants,
                        !.tick.fetch = "ok", !.tick.n = Len(f.plants),
                        !.tick.bad = FirstBad(f.plants)]
         ELSE [@ EXCEPT !.st = "check", !.tick.fetch = "failed"]]
  /\ UNCHANGED <<simulation_threads, stop_flags, active_users, BUGS, rooms, req,
                 sess, simulation_started_counter, active_simulations_gauge,
                 connections_gauge, emitted>>
  /\ UNCHANGED bug_service

\* lines 155-158 and 195-211: the fetch. A 200 starts the loop over the
\* entities; another status is logged (lines 195-206) and an exception is
\* caught (lines 207-211): both end the tick.
Fetch(t, f) ==
  /\ threads[t].st = "fetch"
  /\ threads' = [threads EXCEPT ![t] =
       IF f.kind = "ok"
         THEN [@ EXCEPT !.st = AfterEntity(f.plants), !.plants = f.plants,
                        !.tick.fetch = "ok", !.tick.n = Len(f.plants),
                        !.tick.bad = FirstBad(f.plants)]
         ELSE [@ EXCEPT !.st = "check", !.tick.fetch = "failed"]]
  /\ UNCHANGED <<simulation_threads, stop_flags, active_users, BUGS, rooms, req,
                 sess, simulation_started_counter, active_simulations_gauge,
                 connections_gauge, emitted>>
  /\ UNCHANGED bug_service

\* EntityStep with the emit lacking room=: the update goes to every socket
EntityStepBroadcast(t, d) ==
  /\ threads[t].st = "loop"
  /\ LET plant == Head(threads[t].plants)
         rest == Tail(threads[t].plants)
         key == threads[t].key
     IN
       IF BUGS
         THEN /\ threads' = [threads EXCEPT ![t] =
                    [@ EXCEPT !.st = "suppress", !.tick.data = d]]
              /\ UNCHANGED emitted
         ELSE IF plant = Malformed
           THEN /\ threads' = [threads EXCEPT ![t] =
                      [@ EXCEPT !.st = "check", !.plants = <<>>,
                                !.tick.exc = TRUE, !.tick.data = d]]
                /\ UNCHANGED emitted
           ELSE /\ emitted' = [emitted EXCEPT ![key] =
                      [gen |-> t, room |-> 0, plant |-> plant]]
                /\ threads' = [threads EXCEPT ![t] =
                      [@ EXCEPT !.st = AfterEntity(rest), !.plants = rest,
                                !.tick.emits = @ + 1, !.tick.data = d]]
  /\ UNCHANGED <<simulation_threads, stop_flags, active_users, BUGS, rooms, req,
                 sess, simulation_started_counter, active_simulations_gauge,
                 connections_gauge>>
  /\ UNCHANGED bug_service

\* EntityStep with the exception caught inside the for loop: the entities
\* after a malformed one are still processed in the same tick
EntityStepSkipsBad(t, d) ==
  /\ threads[t].st = "loop"
  /\ LET plant == Head(threads[t].plants)
         rest == Tail(threads[t].plants)
         key == threads[t].key
     IN
       IF BUGS
         THEN /\ threads' = [threads EXCEPT ![t] =
                    [@ EXCEPT !.st = "suppress", !.tick.data = d]]
              /\ UNCHANGED emitted
         ELSE IF plant = Malformed
           THEN /\ threads' = [threads EXCEPT ![t] =
                      [@ EXCEPT !.st = AfterEntity(rest), !.plants = rest,
                                !.tick.exc = TRUE, !.tick.data = d]]
                /\ UNCHANGED emitted
           ELSE /\ emitted' = [emitted EXCEPT ![key] =
                      [gen |-> t, room |-> Room(key), plant |-> plant]]
                /\ threads' = [threads EXCEPT ![t] =
                      [@ EXCEPT !.st = AfterEntity(rest), !.plants = rest,
                                !.tick.emits = @ + 1, !.tick.data = d]]
  /\ UNCHANGED <<simulation_threads, stop_flags, active_users, BUGS, rooms, req,
                 sess, simulation_started_counter, active_simulations_gauge,
                 connections_gauge>>
  /\ UNCHANGED bug_service

\* EntityStep with the exception of a malformed entity not caught: it
\* propagates out of the thread
EntityStepUncaught(t, d) ==
  /\ threads[t].st = "loop"
  /\ LET plant == Head(threads[t].plants)
         rest == Tail(threads[t].plants)
         key == threads[t].key
     IN
       IF BUGS
         THEN /\ threads' = [threads EXCEPT ![t] =
                    [@ EXCEPT !.st = "suppress", !.tick.data = d]]
              /\ UNCHANGED emitted
         ELSE IF plant = Malformed
           THEN /\ threads' = [threads EXCEPT ![t] =
                      [@ EXCEPT !.st = "dead", !.plants = <<>>,
                                !.tick.exc = TRUE, !.tick.data = d]]
                /\ UNCHANGED emitted
           ELSE /\ emitted' = [emitted EXCEPT ![key] =
                      [gen |-> t, room |-> Room(key), plant |-> plant]]
                /\ threads' = [threads EXCEPT ![t] =
                      [@ EXCEPT !.st = AfterEntity(rest), !.plants = rest,
                                !.tick.emits = @ + 1, !.tick.data = d]]
  /\ UNCHANGED <<simulation_threads, stop_flags, active_users, BUGS, rooms, req,
                 sess, simulation_started_counter, active_simulations_gauge,
                 connections_gauge>>
  /\ UNCHANGED bug_service

\* lines 160-168 and 182-194, one entity: generate its reading d; read
\* BUGS; if it is set go on to the suppression, else emit update_plant into
\* room str(user_id); plant["id"] of a malformed entity raises, and the
\* handler of lines 207-211 ends the tick.
EntityStep(t, d) ==
  /\ threads[t].st = "loop"
  /\ LET plant == Head(threads[t].plants)
         rest == Tail(threads[t].plants)
         key == threads[t].key
     IN
       IF BUGS
         THEN /\ threads' = [threads EXCEPT ![t] =
                    [@ EXCEPT !.st = "suppress", !.tick.data = d]]
              /\ UNCHANGED emitted
         ELSE IF plant = Malformed
           THEN /\ threads' = [threads EXCEPT ![t] =
                      [@ EXCEPT !.st = "check", !.plants = <<>>,
                                !.tick.exc = TRUE, !.tick.data = d]]
                /\ UNCHANGED emitted
           ELSE /\ emitted' = [emitted EXCEPT ![key] =
                      [gen |-> t, room |-> Room(key), plant |-> plant]]
                /\ threads' = [threads EXCEPT ![t] =
                      [@ EXCEPT !.st = AfterEntity(rest), !.plants = rest,
                                !.tick.emits = @ + 1, !.tick.data = d]]
  /\ UNCHANGED <<simulation_threads, stop_flags, active_users, BUGS, rooms, req,
                 sess, simulation_started_counter, active_simulations_gauge,
                 connections_gauge>>
  /\ UNCHANGED bug_service

\* the same with the reading left out of the state
Entity(t) == EntityStep(t, NoReading)

\* Suppress without line 181: the flag stays set
SuppressNoReset(t) ==
  /\ threads[t].st = "suppress"
  /\ LET rest == Tail(threads[t].plants) IN
       threads' = [threads EXCEPT ![t] =
         [@ EXCEPT !.st = AfterEntity(rest), !.plants = rest,
                   !.tick.supp = @ + 1]]
  /\ UNCHANGED <<simulation_threads, stop_flags, active_users, BUGS, rooms, req,
                 sess, simulation_started_counter, active_simulations_gauge,
                 connections_gauge, emitted>>
  /\ UNCHANGED bug_service

\* lines 169-181: the fault branch, which ends with BUGS = False and emits
\* nothing for this entity
Suppress(t) ==
  /\ threads[t].st = "suppress"
  /\ BUGS' = FALSE
  /\ LET rest == Tail(threads[t].plants) IN
       threads' = [u \in Threads |->
         IF u = t
           THEN [threads[t] EXCEPT !.st = AfterEntity(rest), !.plants = rest,
                                   !.tick.supp = @ + 1]
           ELSE Disturb(u)]
  /\ UNCHANGED <<simulation_threads, stop_flags, active_users, rooms, req, sess,
                 simulation_started_counter, active_simulations_gauge,
                 connections_gauge, emitted>>
  /\ UNCHANGED bug_service

\* --------------------------------------------------------- socket events
\* (the sockets are numbered in the order they connect)
\* lines 118-127: connect. A socket without a user_id is accepted and
\* recorded nowhere.
Connect(s, uid) ==
  /\ sess[s].st = "new"
  /\ \A q \in Sessions : q < s => sess[q].st # "new"
  /\ sess' = [sess EXCEPT ![s] = [@ EXCEPT !.st = "connected", !.uid = uid]]
  /\ IF Truthy(uid)
       THEN /\ active_users' = active_users \cup {uid}
            /\ rooms' = [rooms EXCEPT ![Room(uid)] = @ \cup {s}]
            /\ connections_gauge' = [connections_gauge EXCEPT ![Room(uid)] = @ + 1]
       ELSE UNCHANGED <<active_users, rooms, connections_gauge>>
  /\ UNCHANGED <<simulation_threads, stop_flags, BUGS, threads, req,
                 simulation_started_counter, active_simulations_gauge, emitted>>
  /\ UNCHANGED bug_service

\* the server's own cleanup once the disconnect handler is over: the sid
\* leaves every room
DropSid(s) == [n \in Users |-> rooms[n] \ {s}]

\* DisconnectBegin with one stop flag for all users: every registered flag
\* raised
DisconnectBeginAll(s) ==
  /\ sess[s].st = "connected"
  /\ LET uid == sess[s].uid IN
       IF uid \in active_users
         THEN /\ active_users' = active_users \ {uid}
              /\ connections_gauge' = [connections_gauge EXCEPT ![Room(uid)] = @ - 1]
              /\ IF stop_flags[uid] # "absent"
                   THEN /\ stop_flags' = [k \in Keys |->
                             IF stop_flags[k] = "absent" THEN "absent" ELSE "true"]
                        /\ sess' = [sess EXCEPT ![s] =
                              [@ EXCEPT !.st = "flagged", !.live0 = UserLive(uid)]]
                        /\ rooms' = [rooms EXCEPT ![Room(uid)] = @ \ {s}]
                   ELSE /\ sess' = [sess EXCEPT ![s].st = "gone"]
                        /\ rooms' = DropSid(s)
                        /\ UNCHANGED stop_flags
         ELSE /\ sess' = [sess EXCEPT ![s].st = "gone"]
              /\ rooms' = DropSid(s)
              /\ UNCHANGED <<active_users, connections_gauge, stop_flags>>
  /\ UNCHANGED <<simulation_threads, BUGS, threads, req,
                 simulation_started_counter, active_simulations_gauge, emitted>>
  /\ UNCHANGED bug_service

\* lines 131-142: disconnect. If the user is in active_users it is deleted,
\* the room is left and the connection counted off; if the user has a stop
\* flag it is raised.
DisconnectBegin(s) ==
  /\ sess[s].st = "connected"
  /\ LET uid == sess[s].uid IN
       IF uid \in active_users
         THEN /\ active_users' = active_users \ {uid}
              /\ connections_gauge' = [connections_gauge EXCEPT ![Room(uid)] = @ - 1]
              /\ IF stop_flags[uid] # "absent"
                   THEN /\ stop_flags' = [stop_flags EXCEPT ![uid] = "true"]
                        /\ sess' = [sess EXCEPT ![s] =
                              [@ EXCEPT !.st = "flagged", !.live0 = UserLive(uid)]]
                        /\ rooms' = [rooms EXCEPT ![Room(uid)] = @ \ {s}]
                   ELSE /\ sess' = [sess EXCEPT ![s].st = "gone"]
                        /\ rooms' = DropSid(s)
                        /\ UNCHANGED stop_flags
         ELSE /\ sess' = [sess EXCEPT ![s].st = "gone"]
              /\ rooms' = DropSid(s)
              /\ UNCHANGED <<active_users, connections_gauge, stop_flags>>
  /\ UNCHANGED <<simulation_threads, BUGS, threads, req,
                 simulation_started_counter, active_simulations_gauge, emitted>>
  /\ UNCHANGED bug_service

\* lines 143-144, the call: `user_id in simulation_threads`, look the
\* thread up and join it (RuntimeError on a thread not yet started)
DisconnectJoin(s) ==
  /\ sess[s].st = "flagged"
  /\ LET t == simulation_threads[sess[s].uid] IN
       IF t = 0 \/ Unstarted(t)
         THEN /\ sess' = [sess EXCEPT ![s] = [@ EXCEPT !.st = "gone",
                                                       !.live0 = FALSE]]
              /\ rooms' = DropSid(s)
         ELSE /\ sess' = [sess EXCEPT ![s] = [@ EXCEPT !.st = "joining",
                                                       !.target = t]]
              /\ UNCHANGED rooms
  /\ UNCHANGED <<simulation_threads, stop_flags, active_users, BUGS, threads,
                 req, simulation_started_counter, active_simulations_gauge,
                 connections_gauge, emitted>>
  /\ UNCHANGED bug_service

\* line 144, the return of join(), and line 145: the gauge goes down
DisconnectJoined(s) ==
  /\ sess[s].st = "joining"
  /\ Finished(sess[s].target)
  /\ active_simulations_gauge' =
       [active_simulations_gauge EXCEPT ![Room(sess[s].uid)] = @ - 1]
  /\ sess' = [sess EXCEPT ![s] = [@ EXCEPT !.st = "gone", !.target = 0,
                                           !.drained = TRUE, !.live0 = FALSE]]
  /\ rooms' = DropSid(s)
  /\ UNCHANGED <<simulation_threads, stop_flags, active_users, BUGS, threads,
                 req, simulation_started_counter, connections_gauge, emitted>>
  /\ UNCHANGED bug_service

\* -------------------------------------------------------- specification
\* The worker threads, with the plant service answering from F
Workers(F) ==
  \/ \E t \in Threads : LoopCheck(t)
  \/ \E t \in Threads, f \in F : Fetch(t, f)
  \/ \E t \in Threads : Entity(t)

\* The fault: /trigger_bug and the workers' fault branch
Faults ==
  \/ bug
  \/ \E t \in Threads : Suppress(t)

\* The steps of the start_simulation requests of R after their first: the
\* launch of a task, and before it the drain of the task it replaces
LaunchSteps(R) ==
  \/ \E r \in R : StartReset(r)
  \/ \E r \in R : StartCreate(r)
  \/ \E r \in R : StartRun(r)

DrainSteps(R) ==
  \/ \E r \in R : StartFlag(r)
  \/ \E r \in R : StartJoin(r)
  \/ \E r \in R : StartJoined(r)

\* The steps of the disconnect handlers after their first
DisconnectSteps ==
  \/ \E s \in Sessions : DisconnectJoin(s)
  \/ \E s \in Sessions : DisconnectJoined(s)

\* no start_simulation request is being served
NoStartRunning == \A r \in Req : req[r].pc \in {"idle", "done"}
\* no socket has connected yet / every socket has connected
NoneConnected == \A s \in Sessions : sess[s].st = "new"
AllConnected == \A s \in Sessions : sess[s].st # "new"

\* The scheduler under every interleaving of its handlers and workers; the
\* plant service answers with one well-formed entity, and the fault flag
\* is never triggered.
LifeFetches == {FetchOk(<<1>>)}

Next ==
  \/ \E r \in FewReq, uid \in StartUids : StartBegin(r, uid)
  \/ DrainSteps(FewReq)
  \/ LaunchSteps(FewReq)
  \/ \E s \in Sessions, uid \in SocketUids : Connect(s, uid)
  \/ \E s \in Sessions : DisconnectBegin(s)
  \/ DisconnectSteps
  \/ Workers(LifeFetches)

Spec == Init /\ [][Next]_vars

\* The start_simulation requests issued one after another, each returning
\* before the next begins, with no socket event.
SeqStart(r, uid) == NoStartRunning /\ StartBegin(r, uid)

SeqNext ==
  \/ \E r \in Req, uid \in StartUids : SeqStart(r, uid)
  \/ DrainSteps(Req)
  \/ LaunchSteps(Req)
  \/ Workers(LifeFetches)

SeqSpec == Init /\ [][SeqNext]_vars

\* The workers' ticks: one task started by the dashboard and one by the
\* plant service (the integer and the text form of the user id), neither
\* restarted; every answer of the plant service with well-formed entities,
\* and the fault flag triggered at any moment.
TickUids == {IntUid(1), StrUid(1)}
TickFetches == GoodFetches \cup FailedFetches

FirstStart(r, uid) ==
  /\ NoStartRunning
  /\ simulation_threads[uid] = 0
  /\ StartBegin(r, uid)

TickNext ==
  \/ \E r \in FewReq, uid \in TickUids : FirstStart(r, uid)
  \/ LaunchSteps(FewReq)
  \/ Workers(TickFetches)
  \/ Faults

TickSpec == Init /\ [][TickNext]_vars

\* The session life cycle: tasks are started first, then every socket
\* connects, then the sockets leave; the threads are scheduled fairly and
\* every fetch returns.
EarlyStart(r, uid) == NoStartRunning /\ NoneConnected /\ StartBegin(r, uid)
LateConnect(s, uid) == NoStartRunning /\ Connect(s, uid)
LateDisconnect(s) == AllConnected /\ DisconnectBegin(s)

SessNext ==
  \/ \E r \in FewReq, uid \in Keys : EarlyStart(r, uid)
  \/ DrainSteps(FewReq)
  \/ LaunchSteps(FewReq)
  \/ \E s \in Sessions, uid \in SocketUids : LateConnect(s, uid)
  \/ \E s \in Sessions : LateDisconnect(s)
  \/ DisconnectSteps
  \/ Workers(LifeFetches)

WorkerStep(t) ==
  \/ LoopCheck(t)
  \/ \E f \in LifeFetches : Fetch(t, f)
  \/ Entity(t)

SessSpec ==
  /\ Init
  /\ [][SessNext]_vars
  /\ \A t \in Threads : WF_vars(WorkerStep(t))

\* Sockets that come and go: tasks are started first, then sockets connect
\* and disconnect in any order, a socket connecting after another has left.
RejoinNext ==
  \/ \E r \in FewReq, uid \in Keys : EarlyStart(r, uid)
  \/ DrainSteps(FewReq)
  \/ LaunchSteps(FewReq)
  \/ \E s \in Sessions, uid \in SocketUids : LateConnect(s, uid)
  \/ \E s \in Sessions : DisconnectBegin(s)
  \/ DisconnectSteps
  \/ Workers(LifeFetches)

RejoinSpec == Init /\ [][RejoinNext]_vars

\* Starts and socket events of one user under every interleaving, the text
\* user id being the one plant_service forwards and sockets carry. The
\* threads are scheduled fairly: a worker, a request or a disconnect
\* handler that can take its next step eventually takes it, and every
\* fetch returns. No fairness is put on the arrival of requests or sockets.
DrainUid == StrUid(1)

RequestStep(r) ==
  \/ StartFlag(r)
  \/ StartJoin(r)
  \/ StartJoined(r)
  \/ StartReset(r)
  \/ StartCreate(r)
  \/ StartRun(r)

HandlerStep(s) ==
  \/ DisconnectJoin(s)
  \/ DisconnectJoined(s)

DrainNext ==
  \/ \E r \in FewReq : StartBegin(r, DrainUid)
  \/ DrainSteps(FewReq)
  \/ LaunchSteps(FewReq)
  \/ \E s \in Sessions : Connect(s, DrainUid)
  \/ \E s \in Sessions : DisconnectBegin(s)
  \/ DisconnectSteps
  \/ Workers(LifeFetches)

DrainSpec ==
  /\ Init
  /\ [][DrainNext]_vars
  /\ \A t \in Threads : WF_vars(WorkerStep(t))
  /\ \A r \in FewReq : WF_vars(RequestStep(r))
  /\ \A s \in Sessions : WF_vars(HandlerStep(s))

\* The readings: one task, never restarted, one entity per tick, every
\* reading the generator can give, and the fault flag triggered at any
\* moment.
ReadingNext ==
  \/ \E r \in FewReq : FirstStart(r, DrainUid)
  \/ LaunchSteps(FewReq)
  \/ \E t \in Threads : LoopCheck(t)
  \/ \E t \in Threads, f \in LifeFetches : Fetch(t, f)
  \/ \E t \in Threads, d \in fake_data : EntityStep(t, d)
  \/ Faults

ReadingSpec == Init /\ [][ReadingNext]_vars

\* Everything a tick can meet: one user's task, restarted by requests that
\* come one after another; every answer of the plant service, malformed
\* entities included; the fault flag triggered at any moment.
ExcNext ==
  \/ \E r \in FewReq : SeqStart(r, DrainUid)
  \/ DrainSteps(FewReq)
  \/ LaunchSteps(FewReq)
  \/ Workers(AllFetches)
  \/ Faults

ExcSpec == Init /\ [][ExcNext]_vars

\* The fault flag shared by the tasks of different users: each user's task
\* started once from the dashboard, every well-formed answer of the plant
\* service, and /trigger_bug at any moment.
FaultUids == {IntUid(n) : n \in Users}

FaultNext ==
  \/ \E r \in FewReq, uid \in FaultUids : FirstStart(r, uid)
  \/ LaunchSteps(FewReq)
  \/ Workers(GoodFetches)
  \/ Faults

FaultSpec == Init /\ [][FaultNext]_vars

\* The emissions of tasks running side by side: tasks started once each,
\* from the dashboard for any user and from the plant service for the
\* first (the two then share a room), and every well-formed answer of the
\* plant service.
RoomUids == FaultUids \cup {DrainUid}

RoomNext ==
  \/ \E r \in FewReq, uid \in RoomUids : FirstStart(r, uid)
  \/ LaunchSteps(FewReq)
  \/ Workers(GoodFetches)

RoomSpec == Init /\ [][RoomNext]_vars

\* Several users side by side, each under the text id its sockets carry:
\* tasks are started (and restarted) first, then the sockets of the first
\* user connect, then they leave, the handlers of one user interleaving
\* with the workers of the others.
TextUids == {StrUid(n) : n \in Users}

UsersNext ==
  \/ \E r \in FewReq, uid \in TextUids : EarlyStart(r, uid)
  \/ DrainSteps(FewReq)
  \/ LaunchSteps(FewReq)
  \/ \E s \in Sessions : LateConnect(s, DrainUid)
  \/ \E s \in Sessions : LateDisconnect(s)
  \/ DisconnectSteps
  \/ Workers(LifeFetches)

UsersSpec == Init /\ [][UsersNext]_vars

\* A stalled downstream call: requests.get has no timeout, and the fetch
\* of the first user's task may never return. The requests of one user
\* come one after another, those of different users overlap. Every thread
\* is scheduled fairly, and every fetch of the other users returns.
StallUid == DrainUid

UserSeqStart(r, uid) ==
  /\ \A q \in Req : req[q].pc \notin {"idle", "done"} => req[q].uid # uid
  /\ StartBegin(r, uid)

\* the steps of a worker that the scheduler alone decides, and the return
\* of the fetch of a user whose plant service answers
StalledWorker(t) ==
  /\ threads[t].key = StallUid
  /\ (LoopCheck(t) \/ Entity(t))

ServedWorker(t) ==
  /\ threads[t].key # StallUid
  /\ WorkerStep(t)

StallNext ==
  \/ \E r \in FewReq, uid \in TextUids : UserSeqStart(r, uid)
  \/ DrainSteps(FewReq)
  \/ LaunchSteps(FewReq)
  \/ Workers(LifeFetches)

StallSpec ==
  /\ Init
  /\ [][StallNext]_vars
  /\ \A t \in Threads : WF_vars(StalledWorker(t))
  /\ \A t \in Threads : WF_vars(ServedWorker(t))
  /\ \A r \in FewReq : WF_vars(RequestStep(r))

\* ---------------------------------------------------------- bug_service
\* (the requests are numbered in the order they arrive)
\* toggle_bug_mode, lines 96-97: old_mode = bug_mode, and the load of
\* bug_mode for `not bug_mode`
ToggleLoad(q) ==
  /\ toggle[q].pc = "idle"
  /\ \A o \in Toggles : o < q => toggle[o].pc # "idle"
  /\ toggle' = [toggle EXCEPT ![q] = [pc |-> "store", loaded |-> bug_mode]]
  /\ UNCHANGED <<bug_mode, bug_mode_gauge>>
  /\ UNCHANGED simulation_service

\* line 97, the store: bug_mode = not <the value loaded>
ToggleStore(q) ==
  /\ toggle[q].pc = "store"
  /\ bug_mode' = ~toggle[q].loaded
  /\ toggle' = [toggle EXCEPT ![q].pc = "gauge"]
  /\ UNCHANGED bug_mode_gauge
  /\ UNCHANGED simulation_service

\* lines 103-109: `if bug_mode:` reads the global again;
\* bug_mode_gauge.add(1) or add(-1); return
ToggleGauge(q) ==
  /\ toggle[q].pc = "gauge"
  /\ bug_mode_gauge' = bug_mode_gauge + (IF bug_mode THEN 1 ELSE -1)
  /\ toggle' = [toggle EXCEPT ![q].pc = "done"]
  /\ UNCHANGED bug_mode
  /\ UNCHANGED simulation_service

\* The toggle requests of bug_service under every interleaving (the Flask
\* server runs each request in its own thread).
ToggleNext ==
  \/ \E q \in Toggles : ToggleLoad(q)
  \/ \E q \in Toggles : ToggleStore(q)
  \/ \E q \in Toggles : ToggleGauge(q)

ToggleSpec == Init /\ [][ToggleNext]_vars

NoToggleRunning == \A q \in Toggles : toggle[q].pc \in {"idle", "done"}

\* ------------------------------------------------------------ properties
\* the loops of user id k that were launched and have not exited
Live(k) == {t \in Threads : Alive(t) /\ threads[t].key = k}
\* the threads created for user id k
Created(k) == {t \in Threads : threads[t].st # "unborn" /\ threads[t].key = k}
\* the start_simulation requests for user id k that have returned / are
\* being served
Returned(k) == {r \in Req : req[r].pc = "done" /\ req[r].uid = k}
Serving(k) == {r \in Req : req[r].pc \notin {"idle", "done"} /\ req[r].uid = k}
\* the sockets that connected with ?user_id=n
SessionsOf(n) == {s \in Sessions : sess[s].uid = StrUid(n)}
\* the loop registered for user id k is running
TaskAlive(k) == simulation_threads[k] # 0 /\ Alive(simulation_threads[k])

\* C1: in every reachable state at most one launched and not yet exited
\* simulate_plant_data loop exists for any given user_id.
C1_AtMostOneLoop == \A k \in Keys : Cardinality(Live(k)) <= 1

\* C2: once N >= 1 start_simulation requests for one user_id have all
\* returned (with 200, and no disconnect has touched that user), exactly
\* one loop of the user is live and exactly N-1 of the requests drained a
\* previous task.
C2_ConcurrentStarts ==
  \A k \in Keys :
    ( /\ Returned(k) # {}
      /\ Serving(k) = {}
      /\ \A r \in Returned(k) : req[r].result = 200
      /\ \A s \in Sessions : sess[s].uid = k => sess[s].st = "connected" )
    => /\ Cardinality(Live(k)) = 1
       /\ Cardinality({r \in Returned(k) : req[r].drained})
            = Cardinality(Returned(k)) - 1

\* C3: the update_plant emissions of one user_id never go back in
\* generation: after an emission of generation g no emission of an earlier
\* generation happens.
C3_GenerationOrder ==
  [][\A k \in Keys : emitted'[k].gen >= emitted[k].gen]_vars

\* C4: after k >= 1 start_simulation requests for one user_id issued one
\* after another, exactly one loop is live for that user, it is the thread
\* of the k-th request (the k-th thread created for the user, registered in
\* simulation_threads), and the k-1 threads before it have exited.
C4_SequentialRestart ==
  \A k \in Keys :
    (NoStartRunning /\ Returned(k) # {})
    => LET last == simulation_threads[k] IN
         /\ \A r \in Returned(k) : req[r].result = 200
         /\ Cardinality(Created(k)) = Cardinality(Returned(k))
         /\ last \in Created(k)
         /\ \A t \in Created(k) : t <= last
         /\ Live(k) = {last}
         /\ \A t \in Created(k) \ {last} : Finished(t)

C4_Witness ==
  /\ NoStartRunning
  /\ \E k \in Keys :
       /\ Cardinality(Returned(k)) >= 2
       /\ Live(k) = {simulation_threads[k]}
       /\ \E t \in Created(k) : Finished(t)

\* C5: for a user with a running task, two sockets that connect for the
\* user and then both disconnect stop the task exactly once: exactly one of
\* the two disconnects drains it (flag raised, thread joined, gauge
\* decremented).
C5_LastLeaveStopsOnce ==
  \A n \in Users :
    ( /\ \E r \in Req : req[r].result = 200 /\ Room(req[r].uid) = n
      /\ Cardinality(SessionsOf(n)) = 2
      /\ \A s \in SessionsOf(n) : sess[s].st = "gone" )
    => Cardinality({s \in SessionsOf(n) : sess[s].drained}) = 1

\* C6: a disconnect raises the user's stop flag only if no other socket
\* that connected for the same user is still connected.
C6_OnlyLastLeaveStops ==
  [][\A s \in Sessions :
       (sess[s].st = "connected" /\ sess'[s].st = "flagged")
       => ~\E o \in Sessions \ {s} :
             sess[o].st = "connected" /\ sess[o].uid = sess[s].uid]_vars

\* C7: for a task started by the dashboard (integer user id) whose sockets
\* joined with the query-string user id, once the last socket of the user
\* has disconnected the loop eventually exits, and an exited loop stays
\* exited.
C7_LastLeaveEndsLoop ==
  /\ \A n \in Users :
       ( /\ \E r \in Req : req[r].result = 200 /\ req[r].uid = IntUid(n)
         /\ AllConnected
         /\ SessionsOf(n) # {}
         /\ \A s \in SessionsOf(n) : sess[s].st = "gone" )
       ~> ~TaskAlive(IntUid(n))
  /\ [][\A t \in Threads : Finished(t) => Finished(t)']_vars

\* C8: if BUGS is true when a tick begins, the fetch succeeds with n >= 1
\* entities and nothing else writes the flag meanwhile, the tick suppresses
\* exactly one entity, emits the other n-1, and BUGS is false after it.
C8_FaultSingleShot ==
  \A t \in Threads :
    LET k == threads[t].tick IN
      ( /\ threads[t].st = "check"
        /\ k.fetch = "ok" /\ k.n >= 1 /\ ~k.exc
        /\ k.bug0 /\ k.clean )
      => (k.supp = 1 /\ k.emits = k.n - 1 /\ ~BUGS)

C8_Witness ==
  \E t \in Threads :
    LET k == threads[t].tick IN
      /\ threads[t].st = "check"
      /\ k.fetch = "ok" /\ k.n = 2 /\ k.bug0 /\ k.clean
      /\ k.supp = 1 /\ k.emits = 1

\* C9: a tick whose fetch fails makes no emission and leaves the task at
\* the top of its loop, not exited; and the tick after a failed one, if its
\* fetch succeeds with the fault flag false, emits once per entity.
C9_TickResilience ==
  \A t \in Threads :
    LET k == threads[t].tick IN
      /\ k.fetch = "failed" => (threads[t].st = "check" /\ k.emits = 0)
      /\ ( /\ threads[t].st = "check"
           /\ k.prevFail /\ k.fetch = "ok" /\ ~k.exc
           /\ ~k.bug0 /\ k.clean )
         => (k.emits = k.n /\ k.supp = 0)

C9_Witness ==
  \E t \in Threads :
    LET k == threads[t].tick IN
      /\ threads[t].st = "check"
      /\ k.prevFail /\ k.fetch = "ok" /\ k.n = 2 /\ k.emits = 2

\* C10: a start_simulation request without a user_id (absent, null or
\* empty) is answered 400 and changes neither simulation_threads,
\* stop_flags, the two simulation counters nor any thread.
C10_InvalidStartRejected ==
  [][\A r \in Req :
       (req[r].pc = "idle" /\ req'[r].pc # "idle" /\ ~Truthy(req'[r].uid))
       => /\ req'[r].pc = "done"
          /\ req'[r].result = 400
          /\ UNCHANGED <<simulation_threads, stop_flags, threads,
                         active_simulations_gauge,
                         simulation_started_counter>>]_vars

C10_Witness == \E r \in Req : req[r].result = 400 /\ ~Truthy(req[r].uid)

\* C11: a disconnect handled while no loop of the user is live (none was
\* ever started, or an earlier disconnect stopped and drained it) changes
\* neither simulation_threads, the liveness of any thread nor the
\* active-simulations gauge.
C11_IdleDisconnectNoOp ==
  [][\A s \in Sessions :
       LET idle == \/ sess[s].st = "connected" /\ ~UserLive(sess[s].uid)
                   \/ sess[s].st \in {"flagged", "joining"} /\ ~sess[s].live0
       IN (idle /\ sess'[s] # sess[s])
          => /\ UNCHANGED <<simulation_threads, active_simulations_gauge>>
             /\ \A t \in Threads : Alive(t)' = Alive(t)]_vars

\* C12: every start_simulation request and every disconnect handler that
\* has begun to join a task eventually returns, under fair scheduling and
\* with every fetch returning.
C12_DrainTerminates ==
  /\ \A r \in Req : (req[r].pc = "joining") ~> (req[r].pc = "done")
  /\ \A s \in Sessions : (sess[s].st = "joining") ~> (sess[s].st = "gone")

\* C13: every generated reading has water_level an integer in 1..10,
\* number_of_insects an integer in 0..10, temperature within 20.00..30.00
\* and humidity within 40.00..60.00 (both in hundredths), emitted or not.
C13_ReadingRanges ==
  \A t \in Threads :
    LET d == threads[t].tick.data IN
      d # NoReading
      => /\ d.water_level \in 1..10
         /\ d.number_of_insects \in 0..10
         /\ d.temperature \in 2000..3000
         /\ d.humidity \in 4000..6000

C13_Witness ==
  \E t \in Threads :
    LET d == threads[t].tick.data IN
      /\ threads[t].tick.emits = 1
      /\ d.water_level = 10 /\ d.number_of_insects = 0
      /\ d.temperature = 3000 /\ d.humidity = 4000

\* C14: once the stop flag of a task's user_id is raised, the task makes no
\* further plant fetch and no further emission.
C14_NoTickAfterFlag ==
  [][\A t \in Threads :
       (Alive(t) /\ stop_flags[threads[t].key] = "true")
       => /\ ~(threads[t].st = "fetch" /\ threads'[t].st # "fetch")
          /\ threads'[t].tick.emits <= threads[t].tick.emits]_vars

\* C14 as amended: the flag is observed only at the top of the loop. A task
\* that finds its flag true when it tests the loop condition exits at once,
\* emitting nothing, and an exited task never runs or emits again.
C14_StopsAtLoopTop ==
  [][\A t \in Threads :
       /\ ( /\ threads[t].st = "check"
            /\ stop_flags[threads[t].key] = "true"
            /\ threads'[t].st # "check" )
          => (Finished(t)' /\ emitted' = emitted)
       /\ Finished(t)
          => /\ threads'[t] = threads[t]
             /\ \A k \in Keys :
                  emitted'[k] # emitted[k] => emitted'[k].gen # t]_vars

C14_Witness ==
  \E t \in Threads :
    /\ Finished(t)
    /\ stop_flags[threads[t].key] = "true"
    /\ emitted[threads[t].key].gen = t

\* C15: a simulation loop exits only by finding its user's stop flag true
\* at the loop test: no failed fetch, fault suppression or exception inside
\* a tick (a malformed entity included) ends the thread.
C15_ExitOnlyOnFlag ==
  [][\A t \in Threads :
       (Alive(t) /\ ~Alive(t)')
       => /\ threads[t].st = "check"
          /\ stop_flags[threads[t].key] = "true"
          /\ Finished(t)']_vars

C15_Witness ==
  \E t, u \in Threads :
    /\ Finished(u)
    /\ threads[t].st = "check"
    /\ threads[t].tick.exc

\* C16: whenever no start_simulation request and no disconnect handler is
\* in progress for a user, simulation_threads holds an entry for the user
\* only if that entry's loop is still live.
C16_StoppedTaskRemoved ==
  \A k \in Keys :
    ( /\ \A r \in Req : req[r].pc \notin {"idle", "done"}
                          => Room(req[r].uid) # Room(k)
      /\ \A s \in Sessions : sess[s].st \in {"flagged", "joining"}
                               => Room(sess[s].uid) # Room(k)
      /\ simulation_threads[k] # 0 )
    => Alive(simulation_threads[k])

\* the tasks that have read BUGS as true (line 168) and not yet reset it
\* (line 181): each of them suppresses the emission of its entity
InFaultBranch == {t \in Threads : threads[t].st = "suppress"}

\* C17: one trigger of the fault flag suppresses exactly one emission in
\* total across the tasks of all users. A task resets the flag only when it
\* leaves the fault branch, so two tasks inside the branch at once have
\* both read the flag of one trigger, and each suppresses an emission: the
\* claim allows at most one task in the branch at a time.
C17_OneSuppressionPerTrigger == Cardinality(InFaultBranch) <= 1

\* the sockets that connected with ?user_id=n and have not disconnected
Connected(n) == {s \in SessionsOf(n) : sess[s].st = "connected"}

\* C18: the sessions recorded as subscribed for a user (the members of the
\* user's room) are exactly the sockets that connected with the user's id
\* and have not since disconnected, and the user is recorded as having
\* subscribers (a key of active_users) iff that set is not empty.
C18_MembershipTracking ==
  \A n \in Users :
    /\ rooms[n] = Connected(n)
    /\ (StrUid(n) \in active_users) <=> (Connected(n) # {})

\* C19: the active-connections count of a user equals the number of the
\* user's sockets currently connected, and is never negative.
C19_ConnectionCount ==
  \A n \in Users :
    /\ connections_gauge[n] = Cardinality(Connected(n))
    /\ connections_gauge[n] >= 0

\* C20: every update_plant emission of a task goes to the room of the
\* task's user and to no other, carries the id of the entity it was made
\* for, and is recorded for no other user; what has been emitted for a
\* user is always in that user's room.
C20_DeliveryTargeting ==
  /\ [][\A t \in Threads :
          threads'[t].tick.emits > threads[t].tick.emits
          => LET key == threads[t].key IN
               /\ emitted'[key] = [gen |-> t, room |-> Room(key),
                                    plant |-> Head(threads[t].plants)]
               /\ \A k \in Keys \ {key} : emitted'[k] = emitted[k]]_vars
  /\ [](\A k \in Keys : emitted[k] # NoEmit
           => /\ emitted[k].room = Room(k)
              /\ threads[emitted[k].gen].key = k
              /\ emitted[k].plant \in Entities)

C20_Witness ==
  \E k, j \in Keys :
    /\ Room(k) # Room(j)
    /\ emitted[k].room = Room(k) /\ emitted[j].room = Room(j)
    /\ emitted[k].plant = 2

\* a step that leaves alone every user id other than a: its entry in
\* simulation_threads, its stop flag and the liveness of its threads
OthersUntouched(a) ==
  \A k \in Keys \ {a} :
    /\ simulation_threads'[k] = simulation_threads[k]
    /\ stop_flags'[k] = stop_flags[k]
    /\ \A t \in Threads : threads[t].key = k => (Alive(t)' <=> Alive(t))

\* C21: every step of a start_simulation request for user A and every step
\* of a disconnect handler for user A leaves, for every other user B, B's
\* entry in simulation_threads, B's stop flag and the liveness of B's task
\* unchanged.
C21_PerUserIndependence ==
  [][/\ \A r \in Req : req'[r] # req[r] => OthersUntouched(req'[r].uid)
     /\ \A s \in Sessions :
          (sess[s].st # "new" /\ sess'[s] # sess[s])
          => OthersUntouched(sess[s].uid)]_vars

C21_Witness ==
  \E s \in Sessions, k \in Keys :
    /\ sess[s].drained /\ sess[s].uid # k
    /\ TaskAlive(k)

\* a running loop of a user other than the one whose fetch stalls
Served(t) == Alive(t) /\ threads[t].key # StallUid

LoopsOf(n) == {t \in Threads : Alive(t) /\ Room(threads[t].key) = n}
\* no start_simulation request and no disconnect handler is in progress
Quiet ==
  /\ NoStartRunning
  /\ \A s \in Sessions : sess[s].st \notin {"flagged", "joining"}

\* C23: once the start_simulation requests and the socket events have
\* completed, the active-simulations count of a user equals the number of
\* the user's live loops and is not negative.
C23_ActiveSimulations ==
  Quiet => \A n \in Users :
             /\ active_simulations_gauge[n] = Cardinality(LoopsOf(n))
             /\ active_simulations_gauge[n] >= 0

\* the live loops whose latest emission went into room n
EmittersInto(n) ==
  {t \in Threads : /\ Alive(t)
                    /\ emitted[threads[t].key].gen = t
                    /\ emitted[threads[t].key].room = n}

\* C24: start_simulation requests that carry one user's id as an integer
\* (dashboard) and as text (plant_service) are requests of the same user:
\* no room ever has two live loops emitting into it.
C24_OneEmitterPerRoom ==
  \A n \in Users : Cardinality(EmittersInto(n)) <= 1

\* C25: an exception raised at entity k of a tick (an entity without an id)
\* touches that tick only. When the tick ends, the entities before k have
\* been emitted (or suppressed, where the fault flag was set) and none
\* from k onward; with the fault flag clear all k-1 were emitted, the
\* last emission being the one of entity k-1. The step that raises leaves
\* BUGS and the thread's liveness alone, and the tick after it, if its
\* answer is well formed and the fault flag clear, emits every entity.
C25_ExceptionScope ==
  /\ [](\A t \in Threads :
         LET k == threads[t].tick IN
           /\ (threads[t].st = "check" /\ k.exc)
              => /\ k.bad > 0
                 /\ k.emits + k.supp = k.bad - 1
           /\ ( /\ threads[t].st = "check" /\ k.fetch = "ok"
                /\ k.bad > 0 /\ ~k.bug0 /\ k.clean )
              => /\ k.exc
                 /\ k.emits = k.bad - 1 /\ k.supp = 0
                 /\ k.bad > 1
                    => emitted[threads[t].key]
                         = [gen |-> t, room |-> Room(threads[t].key),
                            plant |-> k.bad - 1]
           /\ ( /\ threads[t].st = "check" /\ k.prevExc /\ k.fetch = "ok"
                /\ k.bad = 0 /\ ~k.bug0 /\ k.clean )
              => (k.emits = k.n /\ ~k.exc))
  /\ [][\A t \in Threads :
          (~threads[t].tick.exc /\ threads'[t].tick.exc)
          => (BUGS' = BUGS /\ threads'[t].st = "check")]_vars

C25_Witness ==
  \E t \in Threads :
    LET k == threads[t].tick IN
      /\ threads[t].st = "check" /\ k.exc /\ k.prevExc
      /\ k.n = 2 /\ k.bad = 2 /\ k.emits = 1

\* the toggle requests that have returned
Toggled == {q \in Toggles : toggle[q].pc = "done"}

\* C26: once the /toggle_bug_mode requests made so far have all returned,
\* concurrent or not, bug_mode_gauge is 1 if bug_mode is true and 0 if it
\* is false, and bug_mode is true iff their number is odd.
C26_BugModeGauge ==
  NoToggleRunning
  => /\ bug_mode_gauge = (IF bug_mode THEN 1 ELSE 0)
     /\ bug_mode <=> (Cardinality(Toggled) % 2 = 1)

====
